---- MODULE Spec2Model ----
(***************************************************************************)
(* The stats-caching bridge of the monitor dashboard                       *)
(* (src/monitor/dashboard.py) and the node table of                        *)
(* src/monitor/components.py.                                              *)
(*                                                                         *)
(* The hidden element 'cached-crawler-stats' holds the JSON text of the    *)
(* last payload the request-interval callback fetched from the crawler.    *)
(* Every display callback receives that element's children as a State      *)
(* argument, captured when its trigger fires, and passes it through        *)
(* Dashboard.verify_cached_stats.                                          *)
(*                                                                         *)
(* The callbacks state, active_stakers, stakers_breakdown, top_stakers,    *)
(* staked_tokens and nodes_geographical_locations have the shape of        *)
(* current_period (verify_cached_stats, read one key, render) and are      *)
(* not modelled separately.                                                *)
(*                                                                         *)
(* The flask routes /staker_information and /supply_information answer     *)
(* from the staking agent and the economics; neither reads the element.    *)
(***************************************************************************)
EXTENDS Integers, Sequences, FiniteSets, TLC

\* ---- bounds ----
\* the periods the crawler goes through: its document changes MaxPeriod - 1 times
MaxPeriod == 2
\* the fires of 'minute-interval' and 'daily-interval' in one behaviour
MaxTicks == 1
\* the entries of a nodes_dict
MaxNodes == 3

\* ---- JSON values ----
JNum(i) == [t |-> "num", n |-> i, s |-> ""]
JStr(x) == [t |-> "str", n |-> 0, s |-> x]
JNull == [t |-> "null", n |-> 0, s |-> ""]

\* python None, as the children of an element that was never set
None == <<>>

\* ---- the crawler's metrics document ----
Iso8601Strings == {"2020-06-01T00:00:00+00:00"}
NextPeriods == {JStr(x) : x \in Iso8601Strings \cup {"n/a"}}
BlockEpoch == 15
Blocktimes == {JNum(BlockEpoch), JStr("n/a")}
BlockNumber == 40
FutureLockedTokens == 7

Payloads ==
    [blocknumber : {JNum(BlockNumber)},
     blocktime : Blocktimes,
     current_period : {JNum(i) : i \in 1..MaxPeriod},
     future_locked_tokens : {JNum(FutureLockedTokens)},
     next_period : NextPeriods]

PayloadKeys == <<"blocknumber", "blocktime", "current_period", "future_locked_tokens", "next_period">>

\* ---- json.dumps / json.loads over token sequences ----
DigitChars == <<"0", "1", "2", "3", "4", "5", "6", "7", "8", "9">>

RECURSIVE Digits(_)
Digits(i) == IF i < 10 THEN <<DigitChars[i + 1]>>
             ELSE Digits(i \div 10) \o <<DigitChars[(i % 10) + 1]>>

IsDigit(tok) == \E d \in 1..10 : DigitChars[d] = tok

DigitVal(tok) == (CHOOSE d \in 1..10 : DigitChars[d] = tok) - 1

RECURSIVE ParseInt(_, _)
ParseInt(toks, acc) == IF toks = <<>> THEN acc
                       ELSE ParseInt(Tail(toks), acc * 10 + DigitVal(Head(toks)))

EncodeValue(v) == CASE v.t = "num" -> Digits(v.n)
                    [] v.t = "str" -> <<"\"", v.s, "\"">>
                    [] OTHER -> <<"null">>

RECURSIVE EncodeMembers(_, _)
EncodeMembers(obj, keys) ==
    IF keys = <<>> THEN <<>>
    ELSE <<"\"", Head(keys), "\"", ":">> \o EncodeValue(obj[Head(keys)])
         \o (IF Len(keys) > 1 THEN <<",">> ELSE <<>>)
         \o EncodeMembers(obj, Tail(keys))

\* json.dumps, tabulated over the documents of the model
DumpsOf == [p \in Payloads |-> <<"{">> \o EncodeMembers(p, PayloadKeys) \o <<"}">>]

json_dumps(obj) == DumpsOf[obj]

\* the number of leading digit tokens of toks
RECURSIVE NumLen(_)
NumLen(toks) == IF toks # <<>> /\ IsDigit(Head(toks)) THEN 1 + NumLen(Tail(toks)) ELSE 0

\* the value at the head of toks, and the number of tokens it takes
DecodeValue(toks) ==
    IF Head(toks) = "\"" THEN [value |-> JStr(toks[2]), len |-> 3]
    ELSE IF Head(toks) = "null" THEN [value |-> JNull, len |-> 1]
    ELSE [value |-> JNum(ParseInt(SubSeq(toks, 1, NumLen(toks)), 0)), len |-> NumLen(toks)]

\* toks starts at a member's opening quote, or at the closing brace
RECURSIVE DecodeMembers(_)
DecodeMembers(toks) ==
    IF Head(toks) = "}" THEN <<>>
    ELSE LET key == toks[2]
             dv == DecodeValue(SubSeq(toks, 5, Len(toks)))
             rest == SubSeq(toks, 5 + dv.len, Len(toks))
             more == IF Head(rest) = "," THEN Tail(rest) ELSE rest
         IN  (key :> dv.value) @@ DecodeMembers(more)

\* json.loads, tabulated over the texts json.dumps produces
LoadsOf == [text \in {DumpsOf[p] : p \in Payloads} |-> DecodeMembers(Tail(text))]

json_loads(text) == LoadsOf[text]

\* ---- external collaborators ----
\* what the crawler's endpoint does with one GET
UpstreamOutcomes == {"ok", "ConnectionError", "not-json"}
\* what the metrics store does with one query
InfluxOutcomes == {"ok", "InfluxDBClientError"}

\* maya: MayaDT.from_iso8601(x).slang_time(), pendulum's ParserError on other text
from_iso8601(x) ==
    IF x.t = "str" /\ x.s \in Iso8601Strings
    THEN [raised |-> "", value |-> [t |-> "slang_time", n |-> 0, s |-> x.s]]
    ELSE IF x.t = "str" THEN [raised |-> "ParserError", value |-> JNull]
    ELSE [raised |-> "TypeError", value |-> JNull]

\* maya: MayaDT(epoch).iso8601(), defined on numbers
iso8601(epoch) ==
    IF epoch.t = "num"
    THEN [raised |-> "", value |-> [t |-> "iso8601", n |-> epoch.n, s |-> ""]]
    ELSE [raised |-> "TypeError", value |-> JNull]

\* a document whose timestamps parse
WellFormed(p) == p.blocktime.t = "num" /\ p.next_period.s \in Iso8601Strings

\* ---- the node table (components.py) ----
Rfc3339Strings == {"2020-06-01T00:00:00Z"}
LastSeens == Rfc3339Strings \cup {"No Connection to Node"}
Checksums == {"0xA", "0xB", "0xC", "0xD"}
NoTeacher == "None"
EmptyNode == [staker_address |-> "", last_seen |-> ""]
NodeInfos == [staker_address : Checksums, last_seen : LastSeens]

\* maya: MayaDT.from_rfc3339(x).slang_time(), pendulum's ParserError on other text
from_rfc3339(x) ==
    IF x \in Rfc3339Strings
    THEN [raised |-> "", value |-> [t |-> "slang_time", s |-> x]]
    ELSE [raised |-> "ParserError", value |-> [t |-> "", s |-> ""]]

\* generate_node_table_components: the cells that depend on the node
generate_node_table_components(node_info) ==
    LET parsed == from_rfc3339(node_info.last_seen)
        slang_last_seen == IF parsed.raised = "ParserError"
                           THEN [t |-> "raw", s |-> node_info.last_seen]
                           ELSE parsed.value
    IN  [Checksum |-> node_info.staker_address, LastSeen |-> slang_last_seen]

\* nodes_table: one row per node, index counted from 0; the teacher's is highlighted
nodes_table(nodes, teacher_index) ==
    [i \in 1..Len(nodes) |->
        [cells |-> generate_node_table_components(nodes[i]),
         highlighted |-> (i - 1 = teacher_index)]]

\* python None as teacher_index
NoIndex == -1

\* the loop of known_nodes over the dict's entries, in iteration order
RECURSIVE known_nodes_loop(_, _, _, _)
known_nodes_loop(items, teacher_checksum, nodes, teacher_index) ==
    IF items = <<>> THEN [nodes |-> nodes, teacher_index |-> teacher_index]
    ELSE LET checksum == Head(items).checksum
             node_data == Head(items).node_data
         IN  IF node_data # EmptyNode
             THEN known_nodes_loop(Tail(items), teacher_checksum, Append(nodes, node_data),
                                   IF checksum = teacher_checksum THEN Len(nodes)
                                   ELSE teacher_index)
             ELSE known_nodes_loop(Tail(items), teacher_checksum, nodes, teacher_index)

\* known_nodes that takes the teacher's index from its place in nodes_dict
RECURSIVE IndexOfKey(_, _, _)
IndexOfKey(items, key, index) ==
    IF items = <<>> THEN NoIndex
    ELSE IF Head(items).checksum = key THEN index
    ELSE IndexOfKey(Tail(items), key, index + 1)

known_nodes_by_position(nodes_dict, teacher_checksum) ==
    LET r == known_nodes_loop(nodes_dict, teacher_checksum, <<>>, NoIndex)
    IN  [rendered |-> TRUE, count |-> Len(nodes_dict),
         rows |-> nodes_table(r.nodes, IndexOfKey(nodes_dict, teacher_checksum, 0))]

known_nodes(nodes_dict, teacher_checksum) ==
    LET r == known_nodes_loop(nodes_dict, teacher_checksum, <<>>, NoIndex)
    IN  [rendered |-> TRUE, count |-> Len(nodes_dict),
         rows |-> nodes_table(r.nodes, r.teacher_index)]

\* ---- the supply endpoint ----
\* Supplies are counted in thousandths of a token (10^15 NuNit), the grain of
\* the economics tried here.  What the endpoint reports are hundredths of a
\* token, the grain round(NU, 2) leaves.
UnitsPerCent == 10
Thousand == 1000

\* the allocation fractions, in thousandths: 0.319, 0.08, 0.106, 0.2
SAFT1 == 319
SAFT2 == 80
Team == 106
NuCo == 200

\* a float amount: whole units and thousandths of a unit
FloatOf(n) == [whole |-> n, frac |-> 0]

\* fraction * initial_supply, the exact product
Times(fraction, supply) ==
    LET low == fraction * (supply % Thousand)
    IN  [whole |-> fraction * (supply \div Thousand) + low \div Thousand,
         frac |-> low % Thousand]

\* a - b, for a >= b
Minus(a, b) ==
    IF a.frac >= b.frac
    THEN [whole |-> a.whole - b.whole, frac |-> a.frac - b.frac]
    ELSE [whole |-> a.whole - b.whole - 1, frac |-> a.frac + Thousand - b.frac]

\* round(NU.from_nunits(n), 2) of an int: the Decimal is rounded to the
\* cent, a tie to the even cent
round_NU(n) ==
    LET cents == n \div UnitsPerCent
        rest == n % UnitsPerCent
    IN  IF 2 * rest > UnitsPerCent \/ (2 * rest = UnitsPerCent /\ cents % 2 = 1)
        THEN cents + 1 ELSE cents

\* round(NU.from_nunits(x), 2) of a float: the double arithmetic that made x
\* leaves it within a few ulp of the exact amount, far less than a thousandth
\* of a unit, so x rounds as the exact amount does except on a tie, where the
\* error decides and either cent can come out
round_NU_float(x) ==
    LET cents == x.whole \div UnitsPerCent
        rest == (x.whole % UnitsPerCent) * Thousand + x.frac
    IN  IF 2 * rest > UnitsPerCent * Thousand THEN {cents + 1}
        ELSE IF 2 * rest < UnitsPerCent * Thousand THEN {cents}
        ELSE {cents, cents + 1}

investor_supply_saft1_only(initial_supply) == Times(SAFT1, initial_supply)

investor_supply(initial_supply) == Times(SAFT1 + SAFT2, initial_supply)
team_supply(initial_supply) == Times(Team, initial_supply)
nuco_supply(initial_supply) == Times(NuCo, initial_supply)

\* the economics of the example, and small ones around the grain of a cent
ExampleEconomics == [total_supply |-> 1000000 * Thousand, initial_supply |-> 400000 * Thousand]
Supplies == {0, 1, 4, 5, 10, 15, 25, 1000, 7000, 10000, 30000,
             400000 * Thousand, 1000000 * Thousand}
Economics ==
    {[total_supply |-> t, initial_supply |-> i] :
        <<t, i>> \in {x \in Supplies \X Supplies : x[1] >= x[2]}}

\* ---- the dashboard ----
VARIABLES
    crawler,              \* the document the crawler's metrics endpoint serves now
    cached_stats,         \* children of 'cached-crawler-stats': None or JSON text
    last_payload,         \* the payload of the last update_cached_stats that returned, or None
    requests,             \* make_request calls made by verify_cached_stats so far
    n_intervals,          \* fires so far of 'minute-interval' and 'daily-interval'
    current_tab,          \* value of 'network-info-tabs'
    pc,                   \* per display callback: "Idle" or "Rendering"
    latest_crawler_stats, \* per display callback: the State argument of its invocation
    children,             \* per callback output: the children last returned
    raised,               \* per callback: the exception its last invocation raised, or ""
    observed,             \* the data verify_cached_stats returned since 'minute-interval' fired
    response,             \* the last response of the flask endpoints
    economics,            \* the BaseEconomics given to add_supply_endpoint
    nodes_dict,           \* components.known_nodes: the entries of its nodes_dict, in order
    teacher_checksum,     \* components.known_nodes: its teacher_checksum
    node_tables           \* components.known_nodes: what it returned

dashvars == <<crawler, cached_stats, last_payload, requests, n_intervals, current_tab, pc,
              latest_crawler_stats, children, raised, observed, response>>
nodevars == <<nodes_dict, teacher_checksum, node_tables>>
vars == <<dashvars, nodevars, economics>>

MinuteConsumers == {"current-period", "blocktime-value", "time-remaining", "network-info-content"}
DailyConsumers == {"locked-stake-graph"}
Consumers == MinuteConsumers \cup DailyConsumers
Callbacks == Consumers \cup {"cached-crawler-stats"}
Triggers == {"minute-interval", "daily-interval"}
TriggerOf(c) == IF c \in MinuteConsumers THEN "minute-interval" ELSE "daily-interval"
Tabs == {"node-details", "events"}
StakerAddresses == {"0xA"}

NoChildren == [title |-> "", values |-> <<>>]
NoBody == <<>>
NoResponse == [route |-> "", status |-> 0, body |-> NoBody]

NotRendered == [rendered |-> FALSE, count |-> 0, rows |-> <<>>]

InitDashboard ==
    /\ crawler \in {p \in Payloads : p.current_period = JNum(1) /\ WellFormed(p)}
    /\ cached_stats = None
    /\ last_payload = None
    /\ requests = 0
    /\ n_intervals = [t \in Triggers |-> 0]
    /\ current_tab = "node-details"
    /\ pc = [c \in Consumers |-> "Idle"]
    /\ latest_crawler_stats = [c \in Consumers |-> None]
    /\ children = [c \in Consumers |-> NoChildren]
    /\ raised = [c \in Callbacks |-> ""]
    /\ observed = {}
    /\ response = NoResponse

Init ==
    /\ InitDashboard
    /\ nodes_dict = <<>>
    /\ teacher_checksum = NoTeacher
    /\ node_tables = NotRendered
    /\ economics = ExampleEconomics

\* Dashboard.make_request: one GET, then response.json()
make_request(outcome) ==
    LET body == IF outcome = "ok" THEN json_dumps(crawler) ELSE <<"<html>">>
    IN  IF outcome = "ConnectionError" THEN [raised |-> "ConnectionError", payload |-> None]
        ELSE IF Head(body) # "{" THEN [raised |-> "JSONDecodeError", payload |-> None]
        ELSE [raised |-> "", payload |-> json_loads(body)]

\* verify_cached_stats without its None check: json.loads(None) raises
verify_cached_stats_unchecked(stats, outcome) ==
    IF stats = None
    THEN [raised |-> "TypeError", data |-> None, fetched |-> FALSE, called |-> TRUE]
    ELSE [raised |-> "", data |-> json_loads(stats), fetched |-> FALSE, called |-> TRUE]

\* verify_cached_stats that asks the crawler whatever the cache holds
verify_cached_stats_always_fetch(stats, outcome) ==
    LET r == make_request(outcome)
    IN  [raised |-> r.raised, data |-> r.payload, fetched |-> TRUE, called |-> TRUE]

\* verify_cached_stats with its test inverted
verify_cached_stats_inverted(stats, outcome) ==
    IF stats # None
    THEN LET r == make_request(outcome)
         IN  [raised |-> r.raised, data |-> r.payload, fetched |-> TRUE, called |-> TRUE]
    ELSE [raised |-> "TypeError", data |-> None, fetched |-> FALSE, called |-> TRUE]

\* Dashboard.verify_cached_stats
verify_cached_stats(stats, outcome) ==
    IF stats = None
    THEN LET r == make_request(outcome)
         IN  [raised |-> r.raised, data |-> r.payload, fetched |-> TRUE, called |-> TRUE]
    ELSE [raised |-> "", data |-> json_loads(stats), fetched |-> FALSE, called |-> TRUE]

\* the crawler enters the next period and serves a new document
CrawlerUpdate ==
    /\ crawler.current_period.n < MaxPeriod
    /\ \E p \in Payloads :
        /\ p.current_period.n = crawler.current_period.n + 1
        /\ crawler' = p
    /\ UNCHANGED <<cached_stats, last_payload, requests, n_intervals, current_tab, pc,
                   latest_crawler_stats, children, raised, observed, response, nodevars, economics>>

\* update_cached_stats that catches the failure and returns json.dumps(None)
update_cached_stats_swallowing ==
    /\ \E outcome \in UpstreamOutcomes :
        LET r == make_request(outcome)
        IN  /\ raised' = [raised EXCEPT !["cached-crawler-stats"] = r.raised]
            /\ cached_stats' = IF r.raised = "" THEN json_dumps(r.payload) ELSE None
            /\ last_payload' = IF r.raised = "" THEN r.payload ELSE last_payload
    /\ UNCHANGED <<crawler, requests, n_intervals, current_tab, pc, latest_crawler_stats,
                   children, observed, response, nodevars, economics>>

\* 'request-interval' fires: the callback fetches, and its return value becomes
\* the children of 'cached-crawler-stats'; a raised exception sets no output
update_cached_stats ==
    /\ \E outcome \in UpstreamOutcomes :
        LET r == make_request(outcome)
        IN  /\ raised' = [raised EXCEPT !["cached-crawler-stats"] = r.raised]
            /\ cached_stats' = IF r.raised = "" THEN json_dumps(r.payload) ELSE cached_stats
            /\ last_payload' = IF r.raised = "" THEN r.payload ELSE last_payload
    /\ UNCHANGED <<crawler, requests, n_intervals, current_tab, pc, latest_crawler_stats,
                   children, observed, response, nodevars, economics>>

\* a trigger fires: each of its callbacks is invoked with the State it reads now
Fire(trigger, consumers) ==
    /\ n_intervals["minute-interval"] + n_intervals["daily-interval"] < MaxTicks
    /\ \A c \in consumers : pc[c] = "Idle"
    /\ n_intervals' = [n_intervals EXCEPT ![trigger] = @ + 1]
    /\ pc' = [c \in Consumers |-> IF c \in consumers THEN "Rendering" ELSE pc[c]]
    /\ latest_crawler_stats' =
           [c \in Consumers |-> IF c \in consumers THEN cached_stats ELSE latest_crawler_stats[c]]
    /\ UNCHANGED <<crawler, cached_stats, last_payload, requests, children, raised, response, nodevars, economics>>

MinuteTick ==
    /\ \E tab \in Tabs : current_tab' = tab
    /\ observed' = {}
    /\ Fire("minute-interval", MinuteConsumers)

DailyTick ==
    /\ Fire("daily-interval", DailyConsumers)
    /\ UNCHANGED <<current_tab, observed>>

\* a callback returns: v is what verify_cached_stats gave it (NoVerify when it
\* did not call it; v.data is read only when v.raised = ""), exc the exception
\* that left the callback, out its return value
NoVerify == [raised |-> "", data |-> None, fetched |-> FALSE, called |-> FALSE]

\* a callback whose cold-start fetch is also written to 'cached-crawler-stats'
Return_storing(c, v, exc, out) ==
    /\ pc[c] = "Rendering"
    /\ pc' = [pc EXCEPT ![c] = "Idle"]
    /\ requests' = IF v.fetched THEN requests + 1 ELSE requests
    /\ observed' = IF c \in MinuteConsumers /\ v.called /\ v.raised = ""
                   THEN observed \cup {v.data}
                   ELSE observed
    /\ raised' = [raised EXCEPT ![c] = exc]
    /\ children' = IF exc = "" THEN [children EXCEPT ![c] = out] ELSE children
    /\ cached_stats' = IF v.fetched /\ v.raised = "" THEN json_dumps(v.data) ELSE cached_stats
    /\ UNCHANGED <<crawler, last_payload, n_intervals, current_tab,
                   latest_crawler_stats, response, nodevars, economics>>

\* one callback with every output of the trigger: an exception sets none of them
Return_shared(c, v, exc, out) ==
    /\ pc[c] = "Rendering"
    /\ pc' = IF exc = "" THEN [pc EXCEPT ![c] = "Idle"] ELSE [d \in Consumers |-> "Idle"]
    /\ requests' = IF v.fetched THEN requests + 1 ELSE requests
    /\ observed' = IF c \in MinuteConsumers /\ v.called /\ v.raised = ""
                   THEN observed \cup {v.data}
                   ELSE observed
    /\ raised' = IF exc = "" THEN [raised EXCEPT ![c] = exc]
                 ELSE [d \in Callbacks |-> IF d \in Consumers THEN exc ELSE raised[d]]
    /\ children' = IF exc = "" THEN [children EXCEPT ![c] = out] ELSE children
    /\ UNCHANGED <<crawler, cached_stats, last_payload, n_intervals, current_tab,
                   latest_crawler_stats, response, nodevars, economics>>

Return(c, v, exc, out) ==
    /\ pc[c] = "Rendering"
    /\ pc' = [pc EXCEPT ![c] = "Idle"]
    /\ requests' = IF v.fetched THEN requests + 1 ELSE requests
    /\ observed' = IF c \in MinuteConsumers /\ v.called /\ v.raised = ""
                   THEN observed \cup {v.data}
                   ELSE observed
    /\ raised' = [raised EXCEPT ![c] = exc]
    /\ children' = IF exc = "" THEN [children EXCEPT ![c] = out] ELSE children
    /\ UNCHANGED <<crawler, cached_stats, last_payload, n_intervals, current_tab,
                   latest_crawler_stats, response, nodevars, economics>>

current_period ==
    \E outcome \in UpstreamOutcomes :
        LET c == "current-period"
            v == verify_cached_stats(latest_crawler_stats[c], outcome)
        IN  IF v.raised # "" THEN Return(c, v, v.raised, NoChildren)
            ELSE Return(c, v, "", [title |-> "Current Period",
                                   values |-> <<v.data["current_period"]>>])

blocktime ==
    \E outcome \in UpstreamOutcomes :
        LET c == "blocktime-value"
            v == verify_cached_stats(latest_crawler_stats[c], outcome)
        IN  IF v.raised # "" THEN Return(c, v, v.raised, NoChildren)
            ELSE LET iso == iso8601(v.data["blocktime"])
                 IN  IF iso.raised # "" THEN Return(c, v, iso.raised, NoChildren)
                     ELSE Return(c, v, "", [title |-> "Blocktime",
                                            values |-> <<iso.value, v.data["blocknumber"]>>])

time_remaining ==
    \E outcome \in UpstreamOutcomes :
        LET c == "time-remaining"
            v == verify_cached_stats(latest_crawler_stats[c], outcome)
        IN  IF v.raised # "" THEN Return(c, v, v.raised, NoChildren)
            ELSE LET slang == from_iso8601(v.data["next_period"])
                 IN  IF slang.raised # "" THEN Return(c, v, slang.raised, NoChildren)
                     ELSE Return(c, v, "", [title |-> "Next Period", values |-> <<slang.value>>])

\* events(): one metrics-store query over prior_periods days, then the events table
prior_periods == 30

\* events() that asks the crawler itself before its query
events_fetching(influx) ==
    LET v == [raised |-> "", data |-> None, fetched |-> TRUE, called |-> FALSE]
    IN  IF influx # "ok" THEN Return("network-info-content", v, influx, NoChildren)
        ELSE Return("network-info-content", v, "",
                    [title |-> "events", values |-> <<JNum(prior_periods)>>])

events(influx) ==
    IF influx # "ok" THEN Return("network-info-content", NoVerify, influx, NoChildren)
    ELSE Return("network-info-content", NoVerify, "",
                [title |-> "events", values |-> <<JNum(prior_periods)>>])

\* known_nodes(latest_crawler_stats): verify_cached_stats, then components.known_nodes
\* called with the keyword network, which its signature (nodes_dict, teacher_checksum)
\* does not take
known_nodes_closure(outcome) ==
    LET c == "network-info-content"
        v == verify_cached_stats(latest_crawler_stats[c], outcome)
    IN  IF v.raised # "" THEN Return(c, v, v.raised, NoChildren)
        ELSE Return(c, v, "TypeError", NoChildren)

network_info_tab_content ==
    IF current_tab = "node-details"
    THEN \E outcome \in UpstreamOutcomes : known_nodes_closure(outcome)
    ELSE \E influx \in InfluxOutcomes : events(influx)

stake_and_known_nodes_plot ==
    \E outcome \in UpstreamOutcomes, nodes_history \in InfluxOutcomes, past_stakes \in InfluxOutcomes :
        LET c == "locked-stake-graph"
            v == verify_cached_stats(latest_crawler_stats[c], outcome)
        IN  IF v.raised # "" THEN Return(c, v, v.raised, NoChildren)
            ELSE IF nodes_history # "ok" THEN Return(c, v, nodes_history, NoChildren)
            ELSE IF past_stakes # "ok" THEN Return(c, v, past_stakes, NoChildren)
            ELSE Return(c, v, "", [title |-> "locked-stake-graph",
                                   values |-> <<v.data["future_locked_tokens"],
                                                JNum(prior_periods)>>])

staker_information_invalidating(staker_address, ok) ==
    /\ response' = [route |-> "staker_information", status |-> IF ok THEN 200 ELSE 500,
                    body |-> IF ok THEN [staker_address |-> staker_address] ELSE NoBody]
    /\ cached_stats' = None
    /\ UNCHANGED <<crawler, last_payload, requests, n_intervals, current_tab, pc,
                   latest_crawler_stats, children, raised, observed, nodevars, economics>>

\* GET /staker_information/<staker_address>: computed from the staking agent alone;
\* an exception of the blockchain client leaves the view and flask answers 500
staker_information(staker_address, ok) ==
    /\ response' = [route |-> "staker_information", status |-> IF ok THEN 200 ELSE 500,
                    body |-> IF ok THEN [staker_address |-> staker_address] ELSE NoBody]
    /\ UNCHANGED <<crawler, cached_stats, last_payload, requests, n_intervals, current_tab, pc,
                   latest_crawler_stats, children, raised, observed, nodevars, economics>>

\* GET /supply_information: computed from the economics alone
supply_information ==
    LET total_supply == economics.total_supply
        initial_supply == economics.initial_supply
        circulating == Minus(Minus(Minus(FloatOf(initial_supply),
                                         investor_supply(initial_supply)),
                                   team_supply(initial_supply)),
                             nuco_supply(initial_supply))
    IN  \E investors \in round_NU_float(investor_supply(initial_supply)),
           team \in round_NU_float(team_supply(initial_supply)),
           company \in round_NU_float(nuco_supply(initial_supply)),
           est_circulating_supply \in round_NU_float(circulating) :
            /\ response' =
                   [route |-> "supply_information", status |-> 200,
                    body |-> [total_supply |-> round_NU(total_supply),
                              initial_supply |-> round_NU(initial_supply),
                              staking_rewards_supply |-> round_NU(total_supply - initial_supply),
                              internal_allocations |->
                                  [investors |-> investors, team |-> team, company |-> company],
                              est_circulating_supply |-> est_circulating_supply]]
            /\ UNCHANGED <<crawler, cached_stats, last_payload, requests, n_intervals,
                           current_tab, pc, latest_crawler_stats, children, raised, observed,
                           nodevars, economics>>

Next ==
    \/ CrawlerUpdate
    \/ update_cached_stats
    \/ MinuteTick
    \/ DailyTick
    \/ current_period
    \/ blocktime
    \/ time_remaining
    \/ network_info_tab_content
    \/ stake_and_known_nodes_plot
    \/ \E a \in StakerAddresses, ok \in BOOLEAN : staker_information(a, ok)
    \/ supply_information

Spec == Init /\ [][Next]_vars

\* ---- supply_information applied to every economics of Economics ----
InitSupply ==
    /\ InitDashboard
    /\ nodes_dict = <<>>
    /\ teacher_checksum = NoTeacher
    /\ node_tables = NotRendered
    /\ economics \in Economics

NextSupply == supply_information

SpecSupply == InitSupply /\ [][NextSupply]_vars

\* ---- components.known_nodes applied to every small nodes_dict ----
\* the crawler files a node's details under its staker address; a node it has
\* no details of has an empty entry
NodeEntries ==
    {[checksum |-> k, node_data |-> d] :
        k \in Checksums, d \in NodeInfos \cup {EmptyNode}}

\* a dict holds a key once
HasKey(items, k) == \E i \in 1..Len(items) : items[i].checksum = k

RECURSIVE DictsUpTo(_)
DictsUpTo(n) ==
    IF n = 0 THEN {<<>>}
    ELSE LET shorter == DictsUpTo(n - 1)
         IN  shorter \cup
             {Append(qe[1], qe[2]) :
                 qe \in {x \in shorter \X NodeEntries :
                            /\ ~HasKey(x[1], x[2].checksum)
                            /\ x[2].node_data # EmptyNode
                                   => x[2].node_data.staker_address = x[2].checksum}}

NodeDicts == DictsUpTo(MaxNodes)

InitNodes ==
    /\ InitDashboard
    /\ nodes_dict \in NodeDicts
    /\ teacher_checksum \in Checksums \cup {NoTeacher}
    /\ node_tables = NotRendered
    /\ economics = ExampleEconomics

render_known_nodes ==
    /\ node_tables = NotRendered
    /\ node_tables' = known_nodes(nodes_dict, teacher_checksum)
    /\ UNCHANGED <<dashvars, nodes_dict, teacher_checksum, economics>>

NextNodes == render_known_nodes

SpecNodes == InitNodes /\ [][NextNodes]_vars


\* ---- the claims ----
FetchErrors == {"ConnectionError", "JSONDecodeError"}

\* callback c goes through verify_cached_stats (events() does not)
CallsVerify(c) == c # "network-info-content" \/ current_tab = "node-details"

\* the last invocation of callback c has returned
Ran(c) == pc[c] = "Idle" /\ n_intervals[TriggerOf(c)] > 0

\* this step is callback c returning
Returns(c) == pc[c] = "Rendering" /\ pc'[c] = "Idle"

\* the callbacks whose last invocation called verify_cached_stats(None)
ColdCallers == {c \in Consumers : Ran(c) /\ CallsVerify(c) /\ latest_crawler_stats[c] = None}

\* C1 as stated: when two or more display callbacks have called
\* verify_cached_stats with an empty cache before the timer stored anything,
\* exactly one upstream fetch was made for all of them.
C1_SingleFlight ==
    (cached_stats = None /\ Cardinality(ColdCallers) >= 2) => requests = 1

\* C1 amended: every call of verify_cached_stats with an empty cache makes one
\* upstream fetch of its own, so k such calls make k fetches.
C1_OneFetchPerColdCall ==
    [][\A c \in Consumers :
          (Returns(c) /\ CallsVerify(c) /\ latest_crawler_stats[c] = None)
              => requests' = requests + 1]_vars

C1_Witness ==
    /\ cached_stats = None
    /\ Cardinality(ColdCallers) >= 2
    /\ requests = Cardinality(ColdCallers)

\* C2 as stated: once a display callback's request with an empty cache has
\* completed with a fetched payload, the cached snapshot is no longer absent.
C2_ColdStartStores ==
    (\E c \in ColdCallers : raised[c] \notin FetchErrors) => cached_stats # None

\* C2 amended: a display callback invoked with an empty cache fetches
\* synchronously and gets the fetched document itself, and the step stores
\* nothing: 'cached-crawler-stats' is as it was.
C2_ColdStartReturnsWithoutStoring ==
    [][\A c \in Consumers :
          (Returns(c) /\ CallsVerify(c) /\ latest_crawler_stats[c] = None)
              => /\ cached_stats' = cached_stats
                 /\ (c \in MinuteConsumers /\ raised'[c] \notin FetchErrors)
                        => crawler \in observed']_vars

C2_Witness ==
    /\ cached_stats = None
    /\ "current-period" \in ColdCallers
    /\ raised["current-period"] = ""
    /\ children["current-period"].values = <<crawler["current_period"]>>
    /\ crawler \in observed

\* C3: the stored text decodes to exactly the payload of the last refresh that
\* returned, and a display callback invoked with a stored value reads that value
\* in full and nothing else: while the store still holds the value it was
\* invoked with, what it read is the payload of the last refresh.
C3_ReadsReturnStoredPayload ==
    /\ cached_stats # None => json_loads(cached_stats) = last_payload
    /\ \A c \in Consumers :
          (Ran(c) /\ CallsVerify(c) /\ latest_crawler_stats[c] # None)
              => /\ json_loads(latest_crawler_stats[c]) \in Payloads
                 /\ raised[c] \notin FetchErrors
                 /\ c \in MinuteConsumers
                        => observed = {json_loads(latest_crawler_stats[c])}
                 /\ (c \in MinuteConsumers /\ latest_crawler_stats[c] = cached_stats)
                        => observed = {last_payload}

C3_Witness ==
    /\ Ran("current-period")
    /\ latest_crawler_stats["current-period"] = cached_stats
    /\ cached_stats # None
    /\ crawler # last_payload
    /\ raised["current-period"] = ""
    /\ children["current-period"].values = <<last_payload["current_period"]>>

\* C4: a refresh that raises leaves the stored snapshot as it was, and a display
\* callback invoked with that stored value reads it without a fetch error.
C4_FailedRefreshKeepsSnapshot ==
    [][raised'["cached-crawler-stats"] # ""
          => /\ cached_stats' = cached_stats
             /\ cached_stats # None => json_loads(cached_stats') = last_payload'
             /\ \A c \in Consumers :
                   (Returns(c) /\ CallsVerify(c) /\ latest_crawler_stats[c] # None)
                       => /\ raised'[c] \notin FetchErrors
                          /\ c \in MinuteConsumers
                                 => json_loads(latest_crawler_stats[c]) \in observed']_vars

C4_Witness ==
    /\ raised["cached-crawler-stats"] \in FetchErrors
    /\ cached_stats # None
    /\ Ran("current-period")
    /\ latest_crawler_stats["current-period"] = cached_stats
    /\ raised["current-period"] = ""
    /\ children["current-period"].values = <<last_payload["current_period"]>>

\* C5 as stated: the display callbacks one 'minute-interval' fire invoked have
\* all read the same snapshot value, the empty-cache fire included.
C5_NoTornReads == Cardinality(observed) <= 1

\* C5 amended: the display callbacks one 'minute-interval' fire invoked with the
\* same stored value have all read that one snapshot value, and what they
\* rendered comes from it.
C5_NoTornReadsWhenStored ==
    \A c \in MinuteConsumers :
        (n_intervals["minute-interval"] > 0 /\ latest_crawler_stats[c] # None)
            => /\ \A d \in MinuteConsumers : latest_crawler_stats[d] = latest_crawler_stats[c]
               /\ Cardinality(observed) <= 1
               /\ \A p \in observed :
                     /\ (Ran("current-period") /\ raised["current-period"] = "")
                            => children["current-period"].values = <<p["current_period"]>>
                     /\ (Ran("blocktime-value") /\ raised["blocktime-value"] = "")
                            => children["blocktime-value"].values[2] = p["blocknumber"]
                     /\ (Ran("time-remaining") /\ raised["time-remaining"] = "")
                            => children["time-remaining"].values[1].s = p["next_period"].s

C5_Witness ==
    /\ cached_stats # None
    /\ crawler # last_payload
    /\ \A c \in {"current-period", "blocktime-value", "time-remaining"} :
          Ran(c) /\ raised[c] = "" /\ latest_crawler_stats[c] # None
    /\ observed = {json_loads(latest_crawler_stats["current-period"])}

\* C6: an upstream fetch made for rendering is made by verify_cached_stats on an
\* empty cache and by nothing else: a display callback invoked with a stored
\* snapshot, and events(), make none.
C6_ConsumersDoNotFetch ==
    [][requests' # requests
          => \E c \in Consumers :
                /\ Returns(c)
                /\ CallsVerify(c)
                /\ latest_crawler_stats[c] = None
                /\ requests' = requests + 1]_vars

C6_Witness ==
    /\ requests = 0
    /\ \A c \in MinuteConsumers : Ran(c)
    /\ latest_crawler_stats["current-period"] # None
    /\ raised["current-period"] = ""


\* C7: the rows of the node table are the non-empty entries of nodes_dict in
\* its order, the highlighted row is the one whose key is teacher_checksum, and
\* no other row is highlighted.
HasData(entry) == entry.node_data # EmptyNode

C7_TeacherRowHighlighted ==
    node_tables.rendered
        => LET rows == node_tables.rows
               kept == SelectSeq(nodes_dict, HasData)
           IN  /\ node_tables.count = Len(nodes_dict)
               /\ Len(rows) = Len(kept)
               /\ \A i \in 1..Len(rows) :
                     /\ rows[i].cells.Checksum = kept[i].node_data.staker_address
                     /\ rows[i].highlighted <=> (kept[i].checksum = teacher_checksum)
               /\ Cardinality({i \in 1..Len(rows) : rows[i].highlighted}) <= 1

C7_Witness ==
    /\ node_tables.rendered
    /\ Len(nodes_dict) = 3
    /\ nodes_dict[1].node_data = EmptyNode
    /\ nodes_dict[2].node_data # EmptyNode
    /\ nodes_dict[3].node_data # EmptyNode
    /\ nodes_dict[3].checksum = teacher_checksum
    /\ Len(node_tables.rows) = 2
    /\ ~node_tables.rows[1].highlighted
    /\ node_tables.rows[2].highlighted

\* C8 as stated: a display callback whose cold-start fetch failed shows a
\* visible 'unavailable' fragment.
C8_ColdFailureShowsUnavailable ==
    \A c \in ColdCallers : raised[c] \in FetchErrors => children[c].title = "unavailable"

\* C9: a display callback whose metrics-store query failed, and a failed staker
\* lookup, change nothing but that callback's own outcome: the stored snapshot
\* and every sibling's output and progress are as they were, and a sibling
\* still rendering can still return.
QueryErrors == {"InfluxDBClientError"}

C9_FailureIsolation ==
    /\ [](/\ pc["current-period"] = "Rendering" => ENABLED current_period
          /\ pc["blocktime-value"] = "Rendering" => ENABLED blocktime
          /\ pc["time-remaining"] = "Rendering" => ENABLED time_remaining
          /\ pc["network-info-content"] = "Rendering" => ENABLED network_info_tab_content
          /\ pc["locked-stake-graph"] = "Rendering" => ENABLED stake_and_known_nodes_plot)
    /\ [][/\ \A c \in Consumers :
                (Returns(c) /\ raised'[c] \in QueryErrors)
                    => /\ cached_stats' = cached_stats
                       /\ children' = children
                       /\ \A d \in Consumers \ {c} :
                             /\ raised'[d] = raised[d]
                             /\ pc'[d] = pc[d]
                             /\ latest_crawler_stats'[d] = latest_crawler_stats[d]
          /\ (response' # response /\ response'.status = 500)
                => /\ cached_stats' = cached_stats
                   /\ children' = children
                   /\ raised' = raised
                   /\ pc' = pc]_vars

C9_Witness ==
    /\ current_tab = "events"
    /\ Ran("network-info-content")
    /\ raised["network-info-content"] \in QueryErrors
    /\ children["network-info-content"] = NoChildren
    /\ Ran("current-period")
    /\ raised["current-period"] = ""
    /\ children["current-period"].title = "Current Period"
    /\ Ran("time-remaining")
    /\ raised["time-remaining"] = ""
    /\ response.status = 500

\* C10 as stated: a display callback that read a snapshot whose next_period or
\* blocktime does not parse returns normally and shows the raw value.
C10_MalformedFieldShowsRaw ==
    /\ (/\ Ran("time-remaining")
        /\ latest_crawler_stats["time-remaining"] # None
        /\ json_loads(latest_crawler_stats["time-remaining"])["next_period"].s
               \notin Iso8601Strings)
           => /\ raised["time-remaining"] = ""
              /\ children["time-remaining"].values =
                     <<json_loads(latest_crawler_stats["time-remaining"])["next_period"]>>
    /\ (/\ Ran("blocktime-value")
        /\ latest_crawler_stats["blocktime-value"] # None
        /\ json_loads(latest_crawler_stats["blocktime-value"])["blocktime"].t # "num")
           => /\ raised["blocktime-value"] = ""
              /\ children["blocktime-value"].values[1] =
                     json_loads(latest_crawler_stats["blocktime-value"])["blocktime"]

\* the part of C10 the node table keeps: a last_seen that does not parse is
\* shown as it is
LastSeenShowsRaw ==
    node_tables.rendered
        => LET kept == SelectSeq(nodes_dict, HasData)
           IN  \A i \in 1..Len(node_tables.rows) :
                   kept[i].node_data.last_seen \notin Rfc3339Strings
                       => node_tables.rows[i].cells.LastSeen =
                              [t |-> "raw", s |-> kept[i].node_data.last_seen]

\* ---- C11 ----
Answered == response.route = "supply_information"

\* initial_supply less its 0.399, 0.106 and 0.2, exactly
ExactCirculating(initial_supply) ==
    Times(Thousand - (SAFT1 + SAFT2) - Team - NuCo, initial_supply)

AllocationsAndCirculating ==
    response.body.internal_allocations.investors
        + response.body.internal_allocations.team
        + response.body.internal_allocations.company
        + response.body.est_circulating_supply

\* twice the distance, in thousandths of a unit, of a reported amount from an exact one
TwiceOff(cents, exact) ==
    LET d == (cents * UnitsPerCent - exact.whole) * Thousand - exact.frac
    IN  IF d >= 0 THEN 2 * d ELSE 2 * (0 - d)

ExampleAnswer ==
    (economics = ExampleEconomics)
        => /\ response.body.staking_rewards_supply = 600000 * 100
           /\ response.body.est_circulating_supply = 118000 * 100

\* C11 as stated: for every total_supply >= initial_supply >= 0 the endpoint's
\* staking_rewards_supply is total_supply - initial_supply, its
\* est_circulating_supply is initial_supply less 0.399, 0.106 and 0.2 of it,
\* and the three allocations and est_circulating_supply add up to
\* initial_supply; 1,000,000 and 400,000 give 600,000 and 118,000.
C11_SupplyDerivationExact ==
    Answered
        => /\ FloatOf(response.body.staking_rewards_supply * UnitsPerCent)
                  = FloatOf(economics.total_supply - economics.initial_supply)
           /\ FloatOf(response.body.est_circulating_supply * UnitsPerCent)
                  = ExactCirculating(economics.initial_supply)
           /\ AllocationsAndCirculating * UnitsPerCent = economics.initial_supply
           /\ ExampleAnswer

\* C11, amended: the endpoint reports amounts rounded to the hundredth of a
\* token.  staking_rewards_supply is within half a hundredth of
\* total_supply - initial_supply, est_circulating_supply within half a
\* hundredth of initial_supply less 0.399, 0.106 and 0.2 of it, and the three
\* allocations and est_circulating_supply add up to within two hundredths of
\* initial_supply; all three are exact when initial_supply is a whole
\* multiple of 10 tokens and total_supply a whole number of hundredths, as in
\* the example, where 1,000,000 and 400,000 give 600,000 and 118,000.
C11_SupplyDerivationRounded ==
    Answered
        => LET total_supply == economics.total_supply
               initial_supply == economics.initial_supply
               off == AllocationsAndCirculating * UnitsPerCent - initial_supply
           IN  /\ TwiceOff(response.body.staking_rewards_supply,
                           FloatOf(total_supply - initial_supply)) <= UnitsPerCent * Thousand
               /\ TwiceOff(response.body.est_circulating_supply,
                           ExactCirculating(initial_supply)) <= UnitsPerCent * Thousand
               /\ off <= 2 * UnitsPerCent
               /\ 0 - off <= 2 * UnitsPerCent
               /\ (/\ initial_supply % (10 * Thousand) = 0
                   /\ total_supply % UnitsPerCent = 0)
                      => /\ response.body.staking_rewards_supply * UnitsPerCent
                                = total_supply - initial_supply
                         /\ FloatOf(response.body.est_circulating_supply * UnitsPerCent)
                                = ExactCirculating(initial_supply)
                         /\ off = 0
               /\ ExampleAnswer

C11_Witness ==
    /\ Answered
    /\ economics = ExampleEconomics
    /\ response.body.staking_rewards_supply = 600000 * 100
    /\ response.body.est_circulating_supply = 118000 * 100
    /\ response.body.internal_allocations.investors = 159600 * 100

\* a supply of a hundredth of a token is reported with nothing allocated and
\* nothing circulating
SmallSupplyReached ==
    /\ Answered
    /\ economics.initial_supply = UnitsPerCent
    /\ response.body.initial_supply = 1
    /\ AllocationsAndCirculating = 0

\* ---- C12 ----
\* this step is update_cached_stats returning the crawler's document
Refreshes ==
    /\ raised'["cached-crawler-stats"] = ""
    /\ cached_stats' = json_dumps(crawler)
    /\ last_payload' = crawler
    /\ pc' = pc
    /\ children' = children
    /\ response' = response

\* C12: 'cached-crawler-stats' changes only in a step of update_cached_stats
\* that fetched a payload.  A display callback being invoked or returning,
\* in any order and interleaving, and staker_information and
\* supply_information answering, leave it as it was, and a display callback
\* that returns changes no output but its own.
C12_OnlyTimerWritesSnapshot ==
    [][/\ cached_stats' # cached_stats => Refreshes
       /\ last_payload' # last_payload => Refreshes
       /\ pc' # pc => cached_stats' = cached_stats
       /\ \A c \in Consumers :
             Returns(c)
                 => /\ cached_stats' = cached_stats
                    /\ \A d \in Consumers \ {c} : children'[d] = children[d]
       /\ response' # response
             => /\ response'.route \in {"staker_information", "supply_information"}
                /\ cached_stats' = cached_stats
                /\ children' = children]_vars

C12_Witness ==
    /\ cached_stats # None
    /\ cached_stats = json_dumps(last_payload)
    /\ Ran("current-period")
    /\ latest_crawler_stats["current-period"] = cached_stats
    /\ children["current-period"].values = <<last_payload["current_period"]>>
    /\ pc["time-remaining"] = "Rendering"
    /\ children["time-remaining"] = NoChildren
    /\ Answered

====
